---- MODULE Spec2Model ----
(***************************************************************************)
(* State-machine model of alphabet (arnolievens/alphabet): the tracklist   *)
(* (src/src/tracklist.c), its asynchronous file loader, and the player     *)
(* (src/src/player.c) with its transport buttons (src/src/transport.c).    *)
(*                                                                         *)
(* Loudness values are integers (whole LU); only their order matters to    *)
(* the MIN() the code computes.  Tracks are numbered 1..MaxFiles in the    *)
(* order the files were handed to the loader; NULL is the null pointer.    *)
(***************************************************************************)
EXTENDS Integers, Sequences, FiniteSets, TLC

\* ------------------------------------------------------------------ bounds
\* files handed to the loader over a run (each yields at most one Track)
MaxFiles == 2
\* requests that may be in the thread pool at the same time
MaxInFlight == 2
\* tracks already in the list where a run starts with a loaded list
Preloaded == 2
\* events mpv may hold before the handler takes them
MaxEvents == 1
\* wakeups whose idle sources may be waiting on the main loop
MaxWakeups == 1
\* the same two bounds where the claims are about several events and wakeups
\* waiting at once
MaxQueued == 2
\* files of one drop from outside the window
DropFiles == 2
MaxPending == 2

\* ------------------------------------------------------------- value sets
NULL == 0
\* tracks made from the files of the run, then the preloaded ones
TrackIds == 1..(MaxFiles + Preloaded)
\* loudness a probed track may have: below, at and above 0 LUFS
LufsVals == {-2, -1, 1}
\* GtkTreeViewDropPosition
DropPositions == {"BEFORE", "AFTER", "INTO_OR_BEFORE", "INTO_OR_AFTER"}
\* what g_file_query_info / g_file_info_get_content_type answer for a file
NoType == "<null>"
QueryError == "<error>"
ContentTypes == {"audio/x-wav", "text/plain", NoType, QueryError}

\* positions mpv may report, and the length it may report for a track
PosVals == {0, 5200000}
LenVals == {15000000}
\* positions a seek may ask for (the timeline's player_goto calls): before
\* the start, inside the track, past its end
GotoVals == {-1000000, 12345678, 16000000}
\* start positions player_load_track may be called with
StartVals == {-1000000, 0, 5200000, 12345678}

VARIABLES
    list,            \* Tracklist.list: the rows, each holding a Track*
    trk_lufs,        \* Track.lufs of every track created so far
    min_lufs,        \* Tracklist.min_lufs
    player_min_lufs, \* Player.min_lufs
    selected,        \* the row the GtkTreeSelection holds (by its Track), or NULL
    current,         \* Player.current
    freed,           \* tracks released by track_free
    reqs,            \* the files pushed to the load thread pool
    tl_freed,        \* tracklist_free has run
    nerr,            \* messages the loader has written to stderr (g_printerr,
                     \* GLib warnings)
    crashed,         \* the process has ended on a memory fault
    intent,          \* per request, the row its path named when it was made
    play_state,      \* Player.play_state
    position,        \* Player.position
    loop_start,      \* Player.loop_start (0: not set)
    loop_stop,       \* Player.loop_stop (0: not set)
    marker,          \* Player.marker (0: not set)
    rtn,             \* Player.rtn
    trk_length,      \* Track.length of every track
    mpv_events,      \* the events mpv holds for mpv_wait_event
    idle,            \* the idle sources g_idle_add has queued on the main loop
    ab_loops,        \* the "ab-loop" commands counted so far, modulo 3: the
                     \* phase of mpv's own A-B loop cycle (counted where the
                     \* specification follows mpv's loop, left at 0 elsewhere)
    last             \* the last step the program took: on which thread, on
                     \* which rows, and the command it sent to mpv

\* the player's transport state and the events on their way to it
pl_vars == <<play_state, position, loop_start, loop_stop, marker, rtn,
             trk_length, mpv_events, idle, ab_loops>>

vars == <<list, trk_lufs, min_lufs, player_min_lufs, selected, current, freed,
          reqs, tl_freed, nerr, crashed, intent, play_state, position,
          loop_start, loop_stop, marker, rtn, trk_length, mpv_events, idle,
          ab_loops, last>>

\* ---------------------------------------------------------------- helpers
\* glib's MIN(a, b): (((a) < (b)) ? (a) : (b))
MIN(a, b) == IF a < b THEN a ELSE b

\* the sequence with x put at index k, the rows from k on shifted down
InsertAt(seq, k, x) == SubSeq(seq, 1, k - 1) \o <<x>> \o SubSeq(seq, k, Len(seq))

\* the sequence without its k-th row
RemoveAt(seq, k) == SubSeq(seq, 1, k - 1) \o SubSeq(seq, k + 1, Len(seq))

\* the index of the row holding track t (0 when no row holds it)
IndexOf(seq, t) ==
    IF \E i \in 1..Len(seq) : seq[i] = t
    THEN CHOOSE i \in 1..Len(seq) : seq[i] = t
    ELSE 0

Range(seq) == {seq[i] : i \in 1..Len(seq)}

\* a command handed to mpv_command / mpv_command_async
Cmd(name, track, arg) ==
    [name |-> name, track |-> track, arg |-> arg, status |-> 0]

\* what mpv_command and mpv_command_async return: 0, or an error code < 0
\* (which mpv_print_status then prints)
MpvStatus == {0, -1}

NoCmd == Cmd("none", NULL, 0)

\* the record kept of a step that sends mpv the command c
OpCmd(op, thread, trk, dst, pos, n, c) ==
    [op |-> op, thread |-> thread, trk |-> trk, dst |-> dst, pos |-> pos, n |-> n,
     cmd |-> c]

\* the records of a step for the statuses mpv may return for its command
Returned(o) == {[o EXCEPT !.cmd.status = st] : st \in MpvStatus}

\* the record kept of a step that sends no command
Op(op, thread, trk, dst, pos, n) == OpCmd(op, thread, trk, dst, pos, n, NoCmd)

\* a file pushed to the pool: its content, the "path" and "position" data
\* attached to it, where load_async stands, and the Track made from it; obj
\* names the GtkTreePath object the "path" data points to (NULL: no object),
\* unrefs counts the g_object_unref calls made on the file, seen is the
\* min_lufs its thread has read for the MIN() of tracklist_add_track
Request(ctype, path, pos, obj) ==
    [pc |-> "queued", ctype |-> ctype, path |-> path, pos |-> pos, track |-> NULL,
     obj |-> obj, unrefs |-> 0, seen |-> 0]

InFlight == {i \in 1..Len(reqs) : reqs[i].pc # "done"}

\* ------------------------------------------------------------ player side
\* Times are in microseconds, the resolution of the "%f" the code prints
\* them with.
RECURSIVE Pow10(_)
Pow10(k) == IF k = 0 THEN 1 ELSE 10 * Pow10(k - 1)

\* the number of decimal digits of n >= 0
RECURSIVE Digits(_)
Digits(n) == IF n < 10 THEN 1 ELSE 1 + Digits(n \div 10)

\* the seconds mpv reads from the "%f" text of v >= 0 when g_snprintf had
\* room for `room` characters of it: the text is cut, never rounded
FormatF(v, room) ==
    LET secs == v \div 1000000
        drop == (Digits(secs) + 7) - room
    IN IF drop <= 0 THEN v
       ELSE IF drop <= 6 THEN (v \div Pow10(drop)) * Pow10(drop)
       ELSE (secs \div Pow10(drop - 7)) * 1000000

\* position += 0.050
Compensation == 50000
\* char posstr[15] holds "start=" and 8 characters; char posstr[9] holds 8
PosRoom == 8

\* player_stop (called by selection_changed and on_clicked_stop): sends the
\* stop command
player_stop == Cmd("stop", NULL, 0)

\* the start position player_load_track sends: a negative one is raised to
\* 0, a position other than 0 gets 50 ms added
LoadStart(pos) ==
    LET clamped == IF pos < 0 THEN 0 ELSE pos
    IN IF clamped # 0 THEN clamped + Compensation ELSE clamped

\* player_load_track: this->current = track, then the loadfile command
\* (start: the position it was called with)
player_load_track(track, pos) ==
    [current |-> track,
     cmd |-> Cmd("loadfile", track, FormatF(LoadStart(pos), PosRoom)),
     start |-> pos]

\* the start position the selection policy hands to player_load_track
selection_start ==
    IF marker # 0 THEN marker
    ELSE IF rtn THEN 0
    ELSE position

\* selection_changed without the reset of this->player->current
selection_changed_no_reset(sel) ==
    IF sel = NULL
    THEN [current |-> current, cmd |-> player_stop, start |-> 0]
    ELSE player_load_track(sel, selection_start)

\* selection_changed handing the player's position to player_load_track
\* whatever the marker and rtn are
selection_changed_from_position(sel) ==
    IF sel = NULL
    THEN [current |-> NULL, cmd |-> player_stop, start |-> 0]
    ELSE player_load_track(sel, position)

\* selection_changed without the return after the reset: it goes on to load
\* the track it did not get
selection_changed_no_return(sel) ==
    player_load_track(sel, selection_start)

\* selection_changed: load the selected track; with no row selected, stop
\* the player and reset its current track
selection_changed(sel) ==
    IF sel = NULL
    THEN [current |-> NULL, cmd |-> player_stop, start |-> 0]
    ELSE player_load_track(sel, selection_start)

\* ------------------------------------------------------------- tracklist
\* the content type contains "audio" or "org.xiph.flac"
IsAudioType(ctype) == ctype \in {"audio/x-wav", "org.xiph.flac"}

\* tracklist_file_to_track: the Track made from a file, or NULL with one
\* message printed (query error, no content type, not an audio type) and the
\* file released
tracklist_file_to_track(ctype) ==
    IF ctype = QueryError THEN [ok |-> FALSE, printed |-> 1]
    ELSE IF ctype = NoType THEN [ok |-> FALSE, printed |-> 1]
    ELSE IF ~IsAudioType(ctype) THEN [ok |-> FALSE, printed |-> 1]
    ELSE [ok |-> TRUE, printed |-> 0]

\* a tracklist_add_track whose switch falls to insert_after for every position
AddTrackRows_always_after(rows, track, path, pos) ==
    IF path # NULL /\ path <= Len(rows)
    THEN InsertAt(rows, path + 1, track)
    ELSE Append(rows, track)

\* the rows after tracklist_add_track(track, path, pos)
AddTrackRows(rows, track, path, pos) ==
    IF path # NULL /\ path <= Len(rows)
    THEN IF pos \in {"BEFORE", "INTO_OR_BEFORE"}
         THEN InsertAt(rows, path, track)
         ELSE InsertAt(rows, path + 1, track)
    ELSE Append(rows, track)

\* min_lufs after tracklist_add_track
AddTrackMin(min, l) == MIN(min, l)

\* the scan of tracklist_update_min_lufs: min starts at 0.0
RECURSIVE ScanMin(_, _, _)
ScanMin(rows, lufs, min) ==
    IF rows = <<>> THEN min
    ELSE ScanMin(Tail(rows), lufs, MIN(lufs[Head(rows)], min))

\* tracklist_update_min_lufs: <<Tracklist.min_lufs, Player.min_lufs>> after it
tracklist_update_min_lufs(rows, lufs, pmin) ==
    IF rows = <<>>
    THEN <<0, pmin>>
    ELSE <<ScanMin(rows, lufs, 0), ScanMin(rows, lufs, 0)>>

\* the rows after gtk_list_store_move_to: row s is taken out and put back in
\* front of the row that stood at index target (Len + 1: at the end)
MoveTo(rows, s, target) ==
    IF s = target THEN rows
    ELSE InsertAt(RemoveAt(rows, s),
                  IF target > s THEN target - 1 ELSE target,
                  rows[s])

gtk_list_store_move_before(rows, s, d) ==
    MoveTo(rows, s, IF d = NULL THEN Len(rows) + 1 ELSE d)

gtk_list_store_move_after(rows, s, d) ==
    MoveTo(rows, s, IF d = NULL THEN 1 ELSE d + 1)

\* a drop that inserts the dragged track at the destination and leaves the
\* source row where it was
MoveRows_insert_only(rows, s, d, pos) ==
    IF d = NULL THEN Append(rows, rows[s])
    ELSE IF pos = "BEFORE" THEN InsertAt(rows, d, rows[s])
    ELSE InsertAt(rows, d + 1, rows[s])

\* the rows after the TREE_ROW branch of drag_data_received
MoveRows(rows, s, d, pos) ==
    IF pos = "BEFORE" \/ d = NULL
    THEN gtk_list_store_move_before(rows, s, d)
    ELSE gtk_list_store_move_after(rows, s, d)

\* the row the selection lands on when row k has been deleted: the next
\* track in line, the one before it when there is none
NextInLine(rows, k) ==
    IF k <= Len(rows) THEN rows[k]
    ELSE IF k - 1 >= 1 THEN rows[k - 1]
    ELSE NULL

\* ------------------------------------------------------------------ state
\* what malloc'ed memory that was never written may hold
Uninitialized == {0, -1}

\* player_init, with no command sent, no event and no idle source yet
player_init ==
    /\ current = NULL
    /\ loop_start = 0
    /\ loop_stop = 0
    /\ marker = 0
    /\ play_state = "STOP"
    /\ position = 0
    /\ rtn = FALSE
    /\ mpv_events = <<>>
    /\ idle = <<>>
    /\ ab_loops = 0

\* tracklist_new and player_init: Player.min_lufs is set by neither
Init ==
    /\ player_init
    /\ list = <<>>
    /\ trk_lufs = [t \in TrackIds |-> 0]
    /\ trk_length = [t \in TrackIds |-> 0]
    /\ min_lufs = 0
    /\ player_min_lufs \in Uninitialized
    /\ selected = NULL
    /\ freed = {}
    /\ reqs = <<>>
    /\ tl_freed = FALSE
    /\ nerr = 0
    /\ crashed = FALSE
    /\ intent = <<>>
    /\ last = Op("init", "ui", NULL, NULL, "", 0)

\* ---------------------------------------------------------------- actions
\* tracklist_insert_file / tracklist_append_file, on the UI thread: the path
\* and the position are attached to the file, the file is pushed to the pool.
\* Without a path the position is never read: it is written as BEFORE (0),
\* the value tracklist_append_file passes.
insert_file ==
    /\ ~crashed
    /\ ~tl_freed
    /\ Len(reqs) < MaxFiles
    /\ Cardinality(InFlight) < MaxInFlight
    /\ \E ctype \in ContentTypes, path \in 0..Len(list), pos \in DropPositions :
         /\ path = NULL => pos = "BEFORE"
         /\ reqs' = Append(reqs, Request(ctype, path, pos,
                                         IF path = NULL THEN NULL ELSE Len(reqs) + 1))
    /\ last' = Op("insert_file", "ui", NULL, NULL, "", 0)
    /\ UNCHANGED <<list, trk_lufs, min_lufs, player_min_lufs, selected, current,
                   freed, tl_freed, nerr, crashed>>
    /\ UNCHANGED pl_vars

tracklist_insert_file ==
    /\ insert_file
    /\ UNCHANGED intent

\* load_async up to the return of tracklist_file_to_track, on a pool thread.
\* The loudness of a new Track is whatever track_new measures.
load_async_probe_of(i) ==
    /\ ~crashed
    /\ reqs[i].pc = "queued"
    /\ LET r == tracklist_file_to_track(reqs[i].ctype) IN
         /\ nerr' = nerr + r.printed
         /\ IF r.ok
            THEN /\ \E l \in LufsVals : trk_lufs' = [trk_lufs EXCEPT ![i] = l]
                 /\ reqs' = [reqs EXCEPT ![i].pc = "probed", ![i].track = i]
            ELSE /\ trk_lufs' = trk_lufs
                 /\ reqs' = [reqs EXCEPT ![i].pc = "probed", ![i].unrefs = 1]
         /\ last' = Op("file_to_track", "worker", i, NULL, "", 0)
    /\ UNCHANGED <<list, min_lufs, player_min_lufs, selected, current, freed,
                   tl_freed, crashed, intent>>
    /\ UNCHANGED pl_vars

\* tracklist_add_track: the row goes in at the path, min_lufs is lowered to
\* the track's loudness and copied to the player
tracklist_add_track(track, path, pos) ==
    /\ list' = AddTrackRows(list, track, path, pos)
    /\ min_lufs' = AddTrackMin(min_lufs, trk_lufs[track])
    /\ player_min_lufs' = min_lufs'

\* what the g_object_unref at the end of load_async does with a file that
\* tracklist_file_to_track has released already (a dropped file has a single
\* reference): the object is gone, so the call goes unnoticed, or GLib prints
\* a critical warning, or the process faults
SecondUnref == {"unnoticed", "critical", "fault"}

\* the request once load_async has released the path, the position and the file
Released(r) ==
    [r EXCEPT !.pc = "done", !.ctype = "", !.path = NULL, !.pos = "",
              !.unrefs = r.unrefs + 1]

\* the GtkTreePath of request i has been freed by the load_async of another
\* file that was handed the same object
Dangling(i) ==
    /\ reqs[i].obj # NULL
    /\ \E j \in 1..Len(reqs) :
         j # i /\ reqs[j].obj = reqs[i].obj /\ reqs[j].pc = "done"

\* what gtk_tree_model_get_iter may read from the path of request i: the row
\* index stored in it, or, from freed memory, any index (NULL: one that
\* names no row)
PathRead(i) == IF Dangling(i) THEN 0..Len(list) ELSE {reqs[i].path}

\* whether gtk_tree_path_free of request i's path may end the process: a
\* second free of the same object goes unnoticed or aborts
PathFreeFaults(i) == IF Dangling(i) THEN BOOLEAN ELSE {FALSE}

\* the rest of load_async, on the same pool thread: the track, if any, is
\* added by tracklist_add_track, then the request's data is released (the
\* file a second time when the probe failed, the path a second time when
\* another file of the same drop has released it).  After
\* tracklist_free the Tracklist it writes to is freed memory: the writes land
\* in it, or the process faults.
load_async_add_of(i) ==
    /\ ~crashed
    /\ reqs[i].pc = "probed"
    /\ reqs' = [reqs EXCEPT ![i] = Released(reqs[i])]
    /\ IF reqs[i].track = NULL
       THEN /\ last' = Op("load_async", "worker", NULL, NULL, "", 0)
            /\ \E out \in SecondUnref, fault \in PathFreeFaults(i) :
                 /\ nerr' = IF out = "critical" THEN nerr + 1 ELSE nerr
                 /\ crashed' = (out = "fault" \/ fault)
            /\ UNCHANGED <<list, min_lufs, player_min_lufs>>
       ELSE /\ last' = Op("add_track", "worker", reqs[i].track, NULL, "", 0)
            /\ \/ /\ \E path \in PathRead(i) :
                       tracklist_add_track(reqs[i].track, path, reqs[i].pos)
                  /\ crashed' \in PathFreeFaults(i)
               \/ /\ tl_freed
                  /\ crashed' = TRUE
                  /\ UNCHANGED <<list, min_lufs, player_min_lufs>>
            /\ UNCHANGED nerr
    /\ UNCHANGED <<trk_lufs, selected, current, freed, tl_freed, intent>>
    /\ UNCHANGED pl_vars

load_async_probe == \E i \in 1..Len(reqs) : load_async_probe_of(i)

load_async_add == \E i \in 1..Len(reqs) : load_async_add_of(i)

\* the user selects another row (the selection is in browse mode: a click
\* never unselects); GTK emits "changed" and selection_changed runs
select_row ==
    /\ ~crashed
    /\ ~tl_freed
    /\ \E t \in Range(list) :
         /\ t # selected
         /\ selected' = t
         /\ current' = selection_changed(t).current
         /\ last' \in Returned(OpCmd("selection_changed", "ui", t, NULL, "",
                          selection_changed(t).start, selection_changed(t).cmd))
    /\ UNCHANGED <<list, trk_lufs, min_lufs, player_min_lufs, freed, reqs,
                   tl_freed, nerr, crashed, intent>>
    /\ UNCHANGED pl_vars

\* a tracklist_remove_selected without the return for an empty selection: it
\* goes on with the iterator it did not get, here the first row's
tracklist_remove_selected_no_return ==
    /\ ~crashed
    /\ ~tl_freed
    /\ list # <<>>
    /\ LET victim == IF selected = NULL THEN list[1] ELSE selected
           k == IndexOf(list, victim)
           rows == RemoveAt(list, k)
           upd == tracklist_update_min_lufs(rows, trk_lufs, player_min_lufs)
       IN /\ list' = rows
          /\ \E sel \in {NextInLine(rows, k), NULL} :
               /\ selected' = sel
               /\ current' = selection_changed(sel).current
               /\ last' \in Returned(OpCmd("remove_selected", "ui", selected, NULL, "", 0,
                                selection_changed(sel).cmd))
          /\ freed' = freed \cup {victim}
          /\ min_lufs' = upd[1]
          /\ player_min_lufs' = upd[2]
    /\ UNCHANGED <<trk_lufs, reqs, tl_freed, nerr, crashed, intent>>
    /\ UNCHANGED pl_vars

\* tracklist_remove_selected (the Delete key), on the UI thread.  Removing
\* the selected row makes GTK move the selection (to the next track in line,
\* or to none) and emit "changed" inside gtk_list_store_remove, so
\* selection_changed has run when track_free is reached.
tracklist_remove_selected ==
    /\ ~crashed
    /\ ~tl_freed
    /\ IF selected = NULL
       THEN /\ last' = Op("remove_selected", "ui", NULL, NULL, "", 0)
            /\ UNCHANGED <<list, min_lufs, player_min_lufs, selected, current,
                           freed>>
       ELSE LET k == IndexOf(list, selected)
                rows == RemoveAt(list, k)
                upd == tracklist_update_min_lufs(rows, trk_lufs, player_min_lufs)
            IN /\ list' = rows
               /\ \E sel \in {NextInLine(rows, k), NULL} :
                    /\ selected' = sel
                    /\ current' = selection_changed(sel).current
                    /\ last' \in Returned(OpCmd("remove_selected", "ui", selected, NULL, "", 0,
                                     selection_changed(sel).cmd))
               /\ freed' = freed \cup {selected}
               /\ min_lufs' = upd[1]
               /\ player_min_lufs' = upd[2]
    /\ UNCHANGED <<trk_lufs, reqs, tl_freed, nerr, crashed, intent>>
    /\ UNCHANGED pl_vars

\* the TREE_ROW branch of drag_data_received: the selected row (the one
\* drag_data_get put in the selection data) is moved to the drop position.
\* With no row under the pointer pos keeps its initial value, AFTER.
drag_data_received_row ==
    /\ ~crashed
    /\ ~tl_freed
    /\ selected # NULL
    /\ \E d \in 0..Len(list), pos \in DropPositions :
         /\ d = NULL => pos = "AFTER"
         /\ list' = MoveRows(list, IndexOf(list, selected), d, pos)
         /\ last' = Op("move", "ui", selected,
                       IF d = NULL THEN NULL ELSE list[d], pos,
                       IndexOf(list, selected))
    /\ UNCHANGED <<trk_lufs, min_lufs, player_min_lufs, selected, current, freed,
                   reqs, tl_freed, nerr, crashed, intent>>
    /\ UNCHANGED pl_vars

\* tracklist_free (on_destroy): the selection handler is disconnected, every
\* track is freed and its row removed, Player.current is reset, the pool is
\* freed without waiting for its tasks, then the list and the Tracklist
tracklist_free ==
    /\ ~crashed
    /\ ~tl_freed
    /\ freed' = freed \cup Range(list)
    /\ list' = <<>>
    /\ selected' = NULL
    /\ current' = NULL
    /\ tl_freed' = TRUE
    /\ last' = Op("tracklist_free", "ui", NULL, NULL, "", 0)
    /\ UNCHANGED <<trk_lufs, min_lufs, player_min_lufs, reqs, nerr, crashed,
                   intent>>
    /\ UNCHANGED pl_vars

\* ----------------------------------------------------------------- player
\* an mpv_event: its id, and for a property change the property's name and
\* its data, if it carries any.  The events mpv sends this client: changes of
\* the three observed properties, events the handler has no case for
\* (START_FILE stands for them) and SHUTDOWN; log messages are never asked for.
\* (track: for a "length" change, the track whose file mpv took the length
\* from; the event itself does not say)
Event(id, name, has, data) ==
    [id |-> id, name |-> name, has |-> has, data |-> data, track |-> NULL]

\* the event as mpv queues it: a "length" change comes from the file mpv has
\* loaded, the one of the last loadfile command
Queued(e) ==
    IF e.id = "PROPERTY_CHANGE" /\ e.name = "length" /\ e.has
    THEN [e EXCEPT !.track = current]
    ELSE e

MpvEvents ==
    {Event("PROPERTY_CHANGE", "time-pos", TRUE, v) : v \in PosVals}
    \cup {Event("PROPERTY_CHANGE", "core-idle", TRUE, f) : f \in {0, 1}}
    \cup {Event("PROPERTY_CHANGE", "length", TRUE, v) : v \in LenVals}
    \cup {Event("PROPERTY_CHANGE", "length", FALSE, 0),
          Event("START_FILE", "", FALSE, 0),
          Event("SHUTDOWN", "", FALSE, 0)}

\* the switch of player_event_handler with the two outcomes of the
\* "core-idle" case exchanged
ApplyEvent_idle_inverted(p, e) ==
    IF e.id # "PROPERTY_CHANGE" \/ ~e.has THEN p
    ELSE IF e.name = "time-pos" THEN [p EXCEPT !.position = e.data]
    ELSE IF e.name = "core-idle"
         THEN [p EXCEPT !.play_state = IF e.data # 0 THEN "PLAY" ELSE "PAUSE"]
    ELSE IF e.name = "length"
         THEN IF current = NULL
              THEN [p EXCEPT !.crashed = TRUE]
              ELSE [p EXCEPT !.trk_length[current] = e.data]
    ELSE p

\* the switch of player_event_handler with a "core-idle" case that takes a
\* set flag for a stopped player
ApplyEvent_idle_stops(p, e) ==
    IF e.id # "PROPERTY_CHANGE" \/ ~e.has THEN p
    ELSE IF e.name = "time-pos" THEN [p EXCEPT !.position = e.data]
    ELSE IF e.name = "core-idle"
         THEN [p EXCEPT !.play_state = IF e.data # 0 THEN "STOP" ELSE "PLAY"]
    ELSE IF e.name = "length"
         THEN IF current = NULL
              THEN [p EXCEPT !.crashed = TRUE]
              ELSE [p EXCEPT !.trk_length[current] = e.data]
    ELSE p

\* the body of player_event_handler's switch for one event, on the fields
\* the handler writes; a "length" change with no current track writes
\* through a null pointer
ApplyEvent(p, e) ==
    IF e.id # "PROPERTY_CHANGE" \/ ~e.has THEN p
    ELSE IF e.name = "time-pos" THEN [p EXCEPT !.position = e.data]
    ELSE IF e.name = "core-idle"
         THEN [p EXCEPT !.play_state = IF e.data # 0 THEN "PAUSE" ELSE "PLAY"]
    ELSE IF e.name = "length"
         THEN IF current = NULL
              THEN [p EXCEPT !.crashed = TRUE]
              ELSE [p EXCEPT !.trk_length[current] = e.data]
    ELSE p

\* the loop of player_event_handler: events are taken in order until mpv has
\* none left (MPV_EVENT_NONE) or hands out MPV_EVENT_SHUTDOWN
RECURSIVE Drain(_, _)
Drain(p, q) ==
    IF q = <<>> \/ p.crashed THEN [st |-> p, rest |-> q]
    ELSE IF Head(q).id = "SHUTDOWN" THEN [st |-> p, rest |-> Tail(q)]
    ELSE Drain(ApplyEvent(p, Head(q)), Tail(q))

\* mpv, on its own thread, has a new event for the client (while it holds
\* fewer than n); MPV_EVENT_SHUTDOWN is the last event it queues
mpv_emit_upto(n) ==
    /\ ~crashed
    /\ Len(mpv_events) < n
    /\ \A k \in 1..Len(mpv_events) : mpv_events[k].id # "SHUTDOWN"
    /\ \E e \in MpvEvents : mpv_events' = Append(mpv_events, Queued(e))
    /\ UNCHANGED <<list, trk_lufs, min_lufs, player_min_lufs, selected, current,
                   freed, reqs, tl_freed, nerr, crashed, intent, play_state,
                   position, loop_start, loop_stop, marker, rtn, trk_length, idle,
                   last>>
    /\ UNCHANGED ab_loops

mpv_emit == mpv_emit_upto(MaxEvents)

\* event_callback, mpv's wakeup callback, on mpv's thread: two idle sources
\* (while the sources of fewer than n wakeups are waiting)
event_callback_upto(n) ==
    /\ ~crashed
    /\ Len(idle) + 2 <= 2 * n
    /\ idle' = idle \o <<"player_event_handler", "update_ui">>
    /\ last' = Op("event_callback", "mpv", NULL, NULL, "", 0)
    /\ UNCHANGED <<list, trk_lufs, min_lufs, player_min_lufs, selected, current,
                   freed, reqs, tl_freed, nerr, crashed, intent, play_state,
                   position, loop_start, loop_stop, marker, rtn, trk_length,
                   mpv_events>>
    /\ UNCHANGED ab_loops

event_callback == event_callback_upto(MaxWakeups)

\* player_event_handler, run by the main loop as an idle source (it returns
\* FALSE, so the source is removed)
player_event_handler ==
    /\ ~crashed
    /\ idle # <<>>
    /\ Head(idle) = "player_event_handler"
    /\ LET r == Drain([position |-> position, play_state |-> play_state,
                       trk_length |-> trk_length, crashed |-> FALSE],
                      mpv_events)
       IN /\ position' = r.st.position
          /\ play_state' = r.st.play_state
          /\ trk_length' = r.st.trk_length
          /\ crashed' = r.st.crashed
          /\ mpv_events' = r.rest
    /\ idle' = Tail(idle)
    /\ last' = Op("event_handler", "ui", NULL, NULL, "", 0)
    /\ UNCHANGED <<list, trk_lufs, min_lufs, player_min_lufs, selected, current,
                   freed, reqs, tl_freed, nerr, intent, loop_start, loop_stop,
                   marker, rtn>>
    /\ UNCHANGED ab_loops

\* update_ui, run by the main loop as an idle source: the widgets are
\* refreshed from the player's fields, none of which it writes
update_ui ==
    /\ ~crashed
    /\ idle # <<>>
    /\ Head(idle) = "update_ui"
    /\ idle' = Tail(idle)
    /\ last' = Op("update_ui", "ui", NULL, NULL, "", 0)
    /\ UNCHANGED <<list, trk_lufs, min_lufs, player_min_lufs, selected, current,
                   freed, reqs, tl_freed, nerr, crashed, intent, play_state,
                   position, loop_start, loop_stop, marker, rtn, trk_length,
                   mpv_events>>
    /\ UNCHANGED ab_loops

\* what the transport intents leave alone
IntentFrame ==
    UNCHANGED <<list, trk_lufs, min_lufs, player_min_lufs, selected, freed, reqs,
                tl_freed, nerr, intent, trk_length, mpv_events, idle>>

\* a player_toggle that also flips play_state itself
player_toggle_optimistic ==
    /\ ~crashed
    /\ last' \in Returned(OpCmd("toggle", "ui", NULL, NULL, "", 0, Cmd("cycle pause", NULL, 0)))
    /\ play_state' = IF play_state = "PLAY" THEN "PAUSE" ELSE "PLAY"
    /\ IntentFrame
    /\ UNCHANGED <<current, crashed, position, loop_start, loop_stop, marker, rtn>>
    /\ UNCHANGED ab_loops

\* player_toggle (on_clicked_play): the "cycle pause" command
player_toggle ==
    /\ ~crashed
    /\ last' \in Returned(OpCmd("toggle", "ui", NULL, NULL, "", 0, Cmd("cycle pause", NULL, 0)))
    /\ IntentFrame
    /\ UNCHANGED <<current, crashed, play_state, position, loop_start, loop_stop,
                   marker, rtn>>
    /\ UNCHANGED ab_loops

\* player_seek (on_clicked_forward, on_clicked_backward): a relative seek of
\* one second either way
player_seek ==
    /\ ~crashed
    /\ \E secs \in {1000000, -1000000} :
         last' \in Returned(OpCmd("seek", "ui", NULL, NULL, "", 0, Cmd("seek", NULL, secs)))
    /\ IntentFrame
    /\ UNCHANGED <<current, crashed, play_state, position, loop_start, loop_stop,
                   marker, rtn>>
    /\ UNCHANGED ab_loops

\* the position player_goto sends: brought down to the track's length, then
\* up to 0
GotoPosition(pos, length) ==
    LET capped == IF pos > length THEN length ELSE pos
    IN IF capped < 0 THEN 0 ELSE capped

\* player_goto: an absolute seek; it reads this->current->length, through a
\* null pointer when no track is current
player_goto ==
    /\ ~crashed
    /\ \E pos \in GotoVals :
         IF current = NULL
         THEN /\ crashed' = TRUE
              /\ last' = Op("goto", "ui", NULL, NULL, "", pos)
         ELSE /\ last' \in Returned(OpCmd("goto", "ui", NULL, NULL, "", pos,
                               Cmd("seek absolute+keyframes", NULL,
                                   FormatF(GotoPosition(pos, trk_length[current]),
                                           PosRoom))))
              /\ UNCHANGED crashed
    /\ IntentFrame
    /\ UNCHANGED <<current, play_state, position, loop_start, loop_stop, marker, rtn>>
    /\ UNCHANGED ab_loops

\* a call of player_load_track(track, position) for a track of the list
load_track ==
    /\ ~crashed
    /\ \E t \in Range(list), pos \in StartVals :
         /\ current' = player_load_track(t, pos).current
         /\ last' \in Returned(OpCmd("load_track", "ui", t, NULL, "", pos,
                          player_load_track(t, pos).cmd))
    /\ IntentFrame
    /\ UNCHANGED <<crashed, play_state, position, loop_start, loop_stop, marker, rtn>>
    /\ UNCHANGED ab_loops

\* player_update: Player.position after mpv_get_property("time-pos"), which
\* writes mpv's position into it, or nothing when mpv has none to give
player_update(ok, time_pos) == IF ok THEN time_pos ELSE position

\* how many player_loop calls in a row the call now made completes, counted
\* from a call made with both markers unset, up to three (0: the row of
\* calls did not start with both markers unset)
LoopRun ==
    IF last.op = "loop" /\ last.n \in {1, 2} THEN last.n + 1
    ELSE IF loop_start = 0 /\ loop_stop = 0 THEN 1
    ELSE 0

\* a player_loop that puts the markers back when mpv refuses the command
player_loop_rolls_back ==
    /\ ~crashed
    /\ \E ok \in BOOLEAN, time_pos \in PosVals :
         /\ position' = IF loop_start # 0 /\ loop_stop # 0 THEN position
                        ELSE player_update(ok, time_pos)
         /\ last' \in Returned(OpCmd("loop", "ui", NULL, NULL, "", LoopRun,
                                     Cmd("ab-loop", NULL, 0)))
         /\ IF last'.cmd.status < 0
            THEN UNCHANGED <<loop_start, loop_stop>>
            ELSE IF loop_start # 0 /\ loop_stop # 0
            THEN loop_start' = 0 /\ loop_stop' = 0
            ELSE IF loop_start # 0
            THEN loop_stop' = position' /\ UNCHANGED loop_start
            ELSE loop_stop' = 0 /\ loop_start' = position'
    /\ IntentFrame
    /\ UNCHANGED <<current, crashed, play_state, marker, rtn>>

\* a player_loop whose second branch writes loop_start again
player_loop_marks_a_twice ==
    /\ ~crashed
    /\ \E ok \in BOOLEAN, time_pos \in PosVals :
         IF loop_start # 0 /\ loop_stop # 0
         THEN /\ loop_start' = 0
              /\ loop_stop' = 0
              /\ UNCHANGED position
         ELSE /\ position' = player_update(ok, time_pos)
              /\ loop_stop' = 0
              /\ loop_start' = position'
    /\ last' \in Returned(OpCmd("loop", "ui", NULL, NULL, "", LoopRun, Cmd("ab-loop", NULL, 0)))
    /\ IntentFrame
    /\ UNCHANGED <<current, crashed, play_state, marker, rtn>>

\* a player_loop whose cancel branch resets loop_start only
player_loop_keeps_b ==
    /\ ~crashed
    /\ \E ok \in BOOLEAN, time_pos \in PosVals :
         IF loop_start # 0 /\ loop_stop # 0
         THEN /\ loop_start' = 0
              /\ UNCHANGED <<loop_stop, position>>
         ELSE IF loop_start # 0
         THEN /\ position' = player_update(ok, time_pos)
              /\ loop_stop' = position'
              /\ UNCHANGED loop_start
         ELSE /\ position' = player_update(ok, time_pos)
              /\ loop_stop' = 0
              /\ loop_start' = position'
    /\ last' \in Returned(OpCmd("loop", "ui", NULL, NULL, "", LoopRun, Cmd("ab-loop", NULL, 0)))
    /\ IntentFrame
    /\ UNCHANGED <<current, crashed, play_state, marker, rtn>>

\* player_loop (on_clicked_loop): the markers, then the "ab-loop" command
player_loop ==
    /\ ~crashed
    /\ \E ok \in BOOLEAN, time_pos \in PosVals :
         IF loop_start # 0 /\ loop_stop # 0
         THEN /\ loop_start' = 0
              /\ loop_stop' = 0
              /\ UNCHANGED position
         ELSE IF loop_start # 0
         THEN /\ position' = player_update(ok, time_pos)
              /\ loop_stop' = position'
              /\ UNCHANGED loop_start
         ELSE /\ position' = player_update(ok, time_pos)
              /\ loop_stop' = 0
              /\ loop_start' = position'
    /\ last' \in Returned(OpCmd("loop", "ui", NULL, NULL, "", LoopRun, Cmd("ab-loop", NULL, 0)))
    /\ IntentFrame
    /\ UNCHANGED <<current, crashed, play_state, marker, rtn>>

\* on_clicked_loop: player_loop, its command not counted
on_clicked_loop ==
    /\ player_loop
    /\ UNCHANGED ab_loops

\* on_clicked_loop: player_loop, its command counted (mpv's loop cycle has
\* three phases: A set, B set, cleared)
on_clicked_loop_counted ==
    /\ player_loop
    /\ ab_loops' = (ab_loops + 1) % 3

\* player_mark (the m key): the marker is set to the position mpv gives
player_mark ==
    /\ ~crashed
    /\ \E ok \in BOOLEAN, time_pos \in PosVals :
         /\ position' = player_update(ok, time_pos)
         /\ marker' = position'
    /\ last' = Op("mark", "ui", NULL, NULL, "", 0)
    /\ IntentFrame
    /\ UNCHANGED <<current, crashed, play_state, loop_start, loop_stop, rtn>>
    /\ UNCHANGED ab_loops

\* an on_clicked_rtn that flips rtn whether or not a marker is set
on_clicked_rtn_always_flips ==
    /\ ~crashed
    /\ rtn' = ~rtn
    /\ marker' = 0
    /\ last' = Op("rtn", "ui", NULL, NULL, "", 0)
    /\ IntentFrame
    /\ UNCHANGED <<current, crashed, play_state, position, loop_start, loop_stop>>
    /\ UNCHANGED ab_loops

\* on_clicked_rtn (the rtn, ctd and mark buttons)
on_clicked_rtn ==
    /\ ~crashed
    /\ rtn' = IF marker = 0 THEN ~rtn ELSE rtn
    /\ marker' = 0
    /\ last' = Op("rtn", "ui", NULL, NULL, "", 0)
    /\ IntentFrame
    /\ UNCHANGED <<current, crashed, play_state, position, loop_start, loop_stop>>
    /\ UNCHANGED ab_loops

\* on_clicked_stop: player_stop
on_clicked_stop ==
    /\ ~crashed
    /\ last' \in Returned(OpCmd("stop", "ui", NULL, NULL, "", 0, player_stop))
    /\ IntentFrame
    /\ UNCHANGED <<current, crashed, play_state, position, loop_start, loop_stop,
                   marker, rtn>>
    /\ UNCHANGED ab_loops

\* ---------------------------------------------------------- specification
Next ==
    \/ tracklist_insert_file
    \/ load_async_probe
    \/ load_async_add
    \/ select_row
    \/ tracklist_remove_selected
    \/ drag_data_received_row
    \/ tracklist_free

Spec == Init /\ [][Next]_vars

\* ------------------------------------- pool threads inside tracklist_add_track
\* The pool has no thread limit and tracklist_add_track takes no lock, so
\* the calls of several threads overlap.  Here a call is taken in three
\* steps: the insertion of the row, the read of this->min_lufs for the MIN(),
\* and the write of its result with the copy to the player.

\* what gtk_list_store_insert_before/_after/_append does with the row while
\* another thread is at work on the same store: the row is kept, or lost in
\* the other thread's update of the sequence, or the process faults
RacingInsert == {"kept", "lost", "fault"}

\* another pool thread is inside tracklist_add_track
Overlaps(i) ==
    \E j \in 1..Len(reqs) : j # i /\ reqs[j].pc \in {"inserted", "read"}

\* the request of a file no Track was made of goes through the rest of
\* load_async in one step
load_async_drop ==
    \E i \in 1..Len(reqs) : reqs[i].track = NULL /\ load_async_add_of(i)

\* tracklist_add_track up to the row's insertion, on a pool thread
add_track_insert ==
    /\ ~crashed
    /\ \E i \in 1..Len(reqs) :
         /\ reqs[i].pc = "probed"
         /\ reqs[i].track # NULL
         /\ reqs' = [reqs EXCEPT ![i].pc = "inserted"]
         /\ \E out \in IF Overlaps(i) THEN RacingInsert ELSE {"kept"} :
              /\ list' = IF out = "kept"
                         THEN AddTrackRows(list, reqs[i].track, reqs[i].path,
                                           reqs[i].pos)
                         ELSE list
              /\ crashed' = (out = "fault")
         /\ last' = Op("add_track_insert", "worker", reqs[i].track, NULL, "", 0)
    /\ UNCHANGED <<trk_lufs, min_lufs, player_min_lufs, selected, current, freed,
                   tl_freed, nerr, intent>>
    /\ UNCHANGED pl_vars

\* the read of this->min_lufs in MIN(this->min_lufs, track->lufs)
add_track_read ==
    /\ ~crashed
    /\ \E i \in 1..Len(reqs) :
         /\ reqs[i].pc = "inserted"
         /\ reqs' = [reqs EXCEPT ![i].pc = "read", ![i].seen = min_lufs]
         /\ last' = Op("add_track_read", "worker", reqs[i].track, NULL, "", 0)
    /\ UNCHANGED <<list, trk_lufs, min_lufs, player_min_lufs, selected, current,
                   freed, tl_freed, nerr, crashed, intent>>
    /\ UNCHANGED pl_vars

\* the write of this->min_lufs and its copy to the player, then the rest of
\* load_async
add_track_write ==
    /\ ~crashed
    /\ \E i \in 1..Len(reqs) :
         /\ reqs[i].pc = "read"
         /\ min_lufs' = AddTrackMin(reqs[i].seen, trk_lufs[reqs[i].track])
         /\ player_min_lufs' = min_lufs'
         /\ reqs' = [reqs EXCEPT ![i] = Released(reqs[i])]
         /\ last' = Op("add_track", "worker", reqs[i].track, NULL, "", 0)
    /\ UNCHANGED <<list, trk_lufs, selected, current, freed, tl_freed, nerr,
                   crashed, intent>>
    /\ UNCHANGED pl_vars

NextRace ==
    \/ tracklist_insert_file
    \/ load_async_probe
    \/ load_async_drop
    \/ add_track_insert
    \/ add_track_read
    \/ add_track_write

SpecRace == Init /\ [][NextRace]_vars

\* --------------------------------------------- ingestion into a loaded list
\* A list that already holds Preloaded tracks (loaded earlier, their requests
\* long released), none selected, min_lufs as those loads left it.
PreloadedRows == [k \in 1..Preloaded |-> MaxFiles + k]

InitIngest ==
    /\ player_init
    /\ list = PreloadedRows
    /\ trk_lufs = [t \in TrackIds |-> IF t > MaxFiles THEN -1 ELSE 0]
    /\ trk_length = [t \in TrackIds |-> 0]
    /\ min_lufs = -1
    /\ player_min_lufs = -1
    /\ selected = NULL
    /\ freed = {}
    /\ reqs = <<>>
    /\ tl_freed = FALSE
    /\ nerr = 0
    /\ crashed = FALSE
    /\ intent = <<>>
    /\ last = Op("init", "ui", NULL, NULL, "", 0)

\* a drop of a file while no load has completed yet; intent records the row
\* under the pointer and the side asked for
drop_file ==
    /\ list = PreloadedRows
    /\ insert_file
    /\ LET r == reqs'[Len(reqs')] IN
         intent' = Append(intent,
                          [anchor |-> IF r.path = NULL THEN NULL ELSE list[r.path],
                           pos |-> r.pos])

\* the STRING branch of drag_data_received: a drop of n files from outside.
\* One GtkTreePath is taken for the row under the pointer (none when there is
\* no row) and handed to tracklist_insert_file with every file of the drop.
drag_data_received_str ==
    /\ ~crashed
    /\ ~tl_freed
    /\ \E n \in 1..DropFiles :
         /\ Len(reqs) + n <= MaxFiles
         /\ Cardinality(InFlight) + n <= MaxInFlight
         /\ \E types \in [1..n -> ContentTypes], path \in 0..Len(list),
               pos \in DropPositions :
              /\ path = NULL => pos = "BEFORE"
              /\ reqs' = reqs \o [k \in 1..n |->
                                    Request(types[k], path, pos,
                                            IF path = NULL THEN NULL
                                            ELSE Len(reqs) + 1)]
              /\ last' = Op("drop_files", "ui", NULL,
                            IF path = NULL THEN NULL ELSE list[path], pos, n)
    /\ UNCHANGED <<list, trk_lufs, min_lufs, player_min_lufs, selected, current,
                   freed, tl_freed, nerr, crashed, intent>>
    /\ UNCHANGED pl_vars

NextDrop ==
    \/ drag_data_received_str
    \/ load_async_probe
    \/ load_async_add

SpecDrop == InitIngest /\ [][NextDrop]_vars

NextIngest ==
    \/ drop_file
    \/ load_async_probe
    \/ load_async_add

SpecIngest == InitIngest /\ [][NextIngest]_vars

\* ------------------------------------------------- the player on a loaded list
InitPlayer == InitIngest

NextPlayer ==
    \/ select_row
    \/ player_toggle
    \/ player_seek
    \/ player_goto
    \/ on_clicked_loop
    \/ player_mark
    \/ on_clicked_rtn
    \/ on_clicked_stop
    \/ mpv_emit
    \/ event_callback
    \/ player_event_handler
    \/ update_ui

SpecPlayer == InitPlayer /\ [][NextPlayer]_vars

\* ------------------------------- loads and seeks with any position asked for
NextLoad ==
    \/ load_track
    \/ player_goto
    \/ mpv_emit
    \/ event_callback
    \/ player_event_handler
    \/ update_ui

SpecLoad == InitPlayer /\ [][NextLoad]_vars

\* ------------------------------------------ the loop button and mpv's loop
NextLoop ==
    \/ on_clicked_loop_counted
    \/ mpv_emit
    \/ event_callback
    \/ player_event_handler
    \/ update_ui

SpecLoop == InitPlayer /\ [][NextLoop]_vars

\* ------------------------- the way of mpv's events to the player and the UI
\* mpv with room for several events, and several wakeups before the main
\* loop gets to run its idle sources
mpv_emit_many == mpv_emit_upto(MaxQueued)

event_callback_many == event_callback_upto(MaxPending)

NextBridge ==
    \/ select_row
    \/ mpv_emit_many
    \/ event_callback_many
    \/ player_event_handler
    \/ update_ui

SpecBridge == InitPlayer /\ [][NextBridge]_vars

\* The main loop runs every idle source it holds (g_idle_add: the handler
\* returns FALSE and is run once), and mpv calls the wakeup callback after it
\* has queued an event.
SpecBridgeLive ==
    /\ SpecBridge
    /\ WF_vars(player_event_handler)
    /\ WF_vars(update_ui)
    /\ WF_vars(mpv_events # <<>> /\ event_callback_many)

\* ------------------------------------------------------------------ claims
\* the lowest loudness among the rows, 0 for no rows
LowestLufs(rows) ==
    IF rows = <<>> THEN 0
    ELSE CHOOSE m \in {trk_lufs[t] : t \in Range(rows)} :
           \A t \in Range(rows) : m <= trk_lufs[t]

\* how many rows hold track t
Count(rows, t) == Cardinality({k \in 1..Len(rows) : rows[k] = t})

\* C1: while tracks have only been inserted (none removed, the list not
\* freed), min_lufs is the lowest loudness among the tracks present, and 0.0
\* for an empty list.
C1_MinIsLowestAfterInserts ==
    (freed = {} /\ ~tl_freed) => min_lufs = LowestLufs(list)

\* C2: right after a track has been removed, min_lufs is the lowest loudness
\* among the remaining tracks (0.0 if none remain).
C2_RemoveRescansMin ==
    (last.op = "remove_selected" /\ last.trk # NULL) => min_lufs = LowestLufs(list)

\* C3: after every insert and every remove, Player.min_lufs equals
\* Tracklist.min_lufs.
C3_FloorMirrorsMin ==
    (last.op \in {"add_track", "remove_selected"} /\ last.trk # NULL /\ ~tl_freed)
        => player_min_lufs = min_lufs

\* C4: a move changes neither which tracks the list holds, nor how many rows
\* it has, nor min_lufs.
C4_MoveKeepsTracks ==
    [][last'.op = "move" =>
          /\ Len(list') = Len(list)
          /\ \A t \in TrackIds : Count(list', t) = Count(list, t)
          /\ min_lufs' = min_lufs
          /\ player_min_lufs' = player_min_lufs]_vars

\* C4 witness: a move onto another row has put the dragged row somewhere else.
C4_Moved ==
    /\ last.op = "move"
    /\ last.dst # NULL
    /\ last.dst # last.trk
    /\ IndexOf(list, last.trk) # last.n

\* the new track stands next to its anchor, on the side asked for
Adjacent(rows, t, want) ==
    /\ IndexOf(rows, t) # 0
    /\ IndexOf(rows, want.anchor) # 0
    /\ IF want.pos \in {"BEFORE", "INTO_OR_BEFORE"}
       THEN IndexOf(rows, t) + 1 = IndexOf(rows, want.anchor)
       ELSE IndexOf(rows, t) = IndexOf(rows, want.anchor) + 1

\* C5: when the requests dropped on distinct rows of the loaded list have all
\* completed, every new track stands next to the row it was dropped on.
C5_EveryTrackNextToItsAnchor ==
    ( /\ Len(reqs) >= 2
      /\ \A i \in 1..Len(reqs) : reqs[i].pc = "done" /\ reqs[i].track # NULL
      /\ \A i \in 1..Len(reqs) : intent[i].anchor # NULL
      /\ \A i, j \in 1..Len(reqs) : i # j => intent[i].anchor # intent[j].anchor )
    => \A i \in 1..Len(reqs) : Adjacent(list, i, intent[i])

\* C6: every step that inserts into, removes from or reorders the list runs
\* on the UI thread.
C6_MutationsOnUiThread ==
    last.op \in {"add_track", "remove_selected", "move"} => last.thread = "ui"

\* C7: Player.current never points to a track that has been freed.
C7_CurrentNeverFreed ==
    current # NULL => current \notin freed

\* C7 witness: the selected (hence current) track has been removed and freed,
\* and the player now holds the next track in line.
C7_RemovedCurrent ==
    /\ last.op = "remove_selected"
    /\ last.trk \in freed
    /\ current # NULL

\* the content types of a file whose probe fails
FailingTypes == {"text/plain", NoType, QueryError}

\* C8: a request whose file is not audio, or whose type cannot be read, gets
\* exactly one message (the one the probe prints, none when load_async
\* finishes the request), never gets a Track, and neither of its steps
\* changes the rows or min_lufs.
C8_FailedProbeDropsRequest ==
    [][\A i \in 1..Len(reqs) :
         /\ (reqs[i].pc = "queued" /\ reqs'[i].pc = "probed"
                /\ reqs[i].ctype \in FailingTypes)
              => /\ reqs'[i].track = NULL
                 /\ nerr' = nerr + 1
                 /\ list' = list
                 /\ min_lufs' = min_lufs
         /\ (reqs[i].pc = "probed" /\ reqs'[i].pc = "done"
                /\ reqs[i].ctype \in FailingTypes)
              => /\ nerr' = nerr
                 /\ list' = list
                 /\ min_lufs' = min_lufs
                 /\ player_min_lufs' = player_min_lufs]_vars

\* C9: once tracklist_free has run, no load_async adds a track any more.
C9_NoAddAfterFree ==
    tl_freed => last.op # "add_track"

\* C10: no transport intent (toggle, relative seek, goto, loop, loading the
\* selected track) changes play_state: it changes only in a run of
\* player_event_handler that takes a "core-idle" property change.  (The stop
\* button is not one of these intents.)
C10_OnlyIdleEventChangesPlayState ==
    [][(play_state' # play_state /\ last'.op # "stop") =>
          /\ last'.op = "event_handler"
          /\ \E k \in 1..Len(mpv_events) :
               /\ mpv_events[k].id = "PROPERTY_CHANGE"
               /\ mpv_events[k].name = "core-idle"
               /\ mpv_events[k].has]_vars

\* C10 witness: the pause was toggled while playing, and play_state is
\* still PLAY.
C10_ToggledWhilePlaying ==
    /\ last.op = "toggle"
    /\ play_state = "PLAY"
    /\ last.cmd.name = "cycle pause"

\* C11: three player_loop calls in a row, the first made with loop_start and
\* loop_stop both unset, leave both unset again, whatever position mpv
\* gives at each call.
C11_ThreeLoopCallsClearLoop ==
    (last.op = "loop" /\ last.n = 3) => (loop_start = 0 /\ loop_stop = 0)

\* the step is a run of the handler recorded as op (mpv queueing an event is
\* not a step of the program and leaves the record alone)
Ran(op) == last'.op = op /\ mpv_events' = mpv_events

\* C12: a player_loop call made with both markers unset sets loop_start to
\* the position of that moment and leaves loop_stop unset; a call made with
\* only loop_start set sets loop_stop to the position of that moment and
\* leaves loop_start as it was.
C12_LoopMarksAThenB ==
    [][Ran("loop") =>
          /\ (loop_start = 0 /\ loop_stop = 0)
                => (loop_start' = position' /\ loop_stop' = 0)
          /\ (loop_start # 0 /\ loop_stop = 0)
                => (loop_stop' = position' /\ loop_start' = loop_start)]_vars

\* C12 witness: a first call has marked A, the second has marked B.
C12_MarkedAThenB ==
    /\ last.op = "loop"
    /\ last.n = 2
    /\ loop_start # 0
    /\ loop_stop # 0

\* C13: player_load_track(track, start) sends the loadfile command with
\* start position start + 50 ms when start > 0 and 0 when start <= 0.
C13_LoadStartIsStartPlus50ms ==
    last.op = "load_track" =>
        /\ last.cmd.name = "loadfile"
        /\ last.cmd.arg = IF last.n > 0 THEN last.n + 50000 ELSE 0

\* C19: with a track loaded, player_goto(position) sends an absolute seek to
\* the position brought into [0, length of the current track]: the length
\* for a position above it, 0 for a negative one, the position itself
\* otherwise.
C19_GotoSendsClampedPosition ==
    (last.op = "goto" /\ current # NULL) =>
        /\ last.cmd.name = "seek absolute+keyframes"
        /\ last.cmd.arg = IF last.n > trk_length[current] THEN trk_length[current]
                          ELSE IF last.n < 0 THEN 0
                          ELSE last.n

C15_EmptySelectionStops ==
    (last.op = "remove_selected" /\ last.trk # NULL /\ selected = NULL) =>
        /\ last.cmd.name = "stop"
        /\ current = NULL

\* C15 witness: the last track of the list has been removed.
C15_LastTrackRemoved ==
    /\ last.op = "remove_selected"
    /\ last.trk # NULL
    /\ list = <<>>
    /\ selected = NULL
    /\ last.cmd = player_stop

\* C16: on_clicked_rtn flips rtn exactly when the marker was unset, always
\* leaves the marker unset, and changes neither the loop markers, nor the
\* position, nor play_state.
C16_RtnFlipsOnlyWithoutMarker ==
    [][Ran("rtn") =>
          /\ (rtn' # rtn) <=> (marker = 0)
          /\ marker' = 0
          /\ UNCHANGED <<loop_start, loop_stop, position, play_state>>]_vars

\* C16 witness: rtn has been switched on by the button, no marker being set.
C16_RtnSwitchedOn ==
    /\ last.op = "rtn"
    /\ rtn
    /\ marker = 0

\* the step is a run of player_event_handler
HandlerRan == last'.op = "event_handler" /\ idle' # idle

\* a property change that carries data
HasData(e, name) == e.id = "PROPERTY_CHANGE" /\ e.name = name /\ e.has

\* the events a run of the handler gets to handle: those ahead of the first
\* SHUTDOWN, up to a "length" change met with no current track
RECURSIVE Handled(_)
Handled(q) ==
    IF q = <<>> \/ Head(q).id = "SHUTDOWN" THEN <<>>
    ELSE IF HasData(Head(q), "length") /\ current = NULL THEN <<Head(q)>>
    ELSE <<Head(q)>> \o Handled(Tail(q))

\* the data of the last change of property `name` in q, `none` if q has none
RECURSIVE LastData(_, _, _)
LastData(q, name, none) ==
    IF q = <<>> THEN none
    ELSE IF HasData(q[Len(q)], name) THEN q[Len(q)].data
    ELSE LastData(SubSeq(q, 1, Len(q) - 1), name, none)

\* C17: a run of player_event_handler sets play_state to PAUSE for a
\* "core-idle" change whose flag is set and to PLAY for one whose flag is
\* clear, sets position to the value of a "time-pos" change, and changes no
\* other field of the player; events of other kinds and property changes
\* without data change nothing at all.
C17_HandlerEffects ==
    [][HandlerRan =>
          LET q == Handled(mpv_events)
              idleflag == LastData(q, "core-idle", -1)
          IN /\ play_state' = IF idleflag = -1 THEN play_state
                              ELSE IF idleflag # 0 THEN "PAUSE" ELSE "PLAY"
             /\ position' = LastData(q, "time-pos", position)
             /\ UNCHANGED <<loop_start, loop_stop, marker, rtn, current,
                            player_min_lufs>>
             /\ (\A k \in 1..Len(q) : ~(q[k].id = "PROPERTY_CHANGE" /\ q[k].has))
                  => UNCHANGED <<trk_length, crashed>>]_vars

\* C17 witness: the handler has taken a "core-idle" change whose flag was set.
C17_PausedByIdleFlag ==
    /\ last.op = "event_handler"
    /\ play_state = "PAUSE"
    /\ mpv_events = <<>>

\* C18: a run of player_event_handler that finds only "length" changes while
\* no track is current ends without a fault and changes no state.
C18_LengthWithoutTrackIsHarmless ==
    [][(/\ HandlerRan
        /\ current = NULL
        /\ mpv_events # <<>>
        /\ \A k \in 1..Len(mpv_events) : HasData(mpv_events[k], "length"))
       => /\ ~crashed'
          /\ UNCHANGED <<position, play_state, trk_length, current, loop_start,
                         loop_stop, marker, rtn>>]_vars

\* C20: a command that mpv answers with a negative status leaves what the
\* call has written in place: Player.current is the track asked for after a
\* refused loadfile, and the loop markers have their new values after a
\* refused ab-loop.
C20_FailedCommandKeepsLocalState ==
    [][/\ (Ran("selection_changed") /\ last'.cmd.status < 0)
            => (current' = selected' /\ last'.cmd.track = current')
       /\ (Ran("loop") /\ last'.cmd.status < 0)
            => /\ (loop_start = 0 /\ loop_stop = 0)
                    => (loop_start' = position' /\ loop_stop' = 0)
               /\ (loop_start # 0 /\ loop_stop = 0)
                    => (loop_stop' = position' /\ loop_start' = loop_start)
               /\ (loop_start # 0 /\ loop_stop # 0)
                    => (loop_start' = 0 /\ loop_stop' = 0)]_vars

\* C20 witness: mpv refused the ab-loop command of a call that marked A, and
\* A is marked.
C20_MarkedDespiteRefusal ==
    /\ last.op = "loop"
    /\ last.cmd.status < 0
    /\ last.n = 1
    /\ loop_start # 0
    /\ loop_stop = 0

\* the number of idle sources of the main loop that run function f
Pending(f) == Cardinality({k \in 1..Len(idle) : idle[k] = f})

\* C21: however many wakeups arrive before the main loop runs, at most one
\* update_ui source is waiting on it.
C21_AtMostOneRefreshPending == Pending("update_ui") <= 1

\* C22: every step that writes a field of the player (position, play_state,
\* current, a track's length, min_lufs) runs on the UI thread; no step of
\* mpv's thread or of a pool thread writes one.
C22_PlayerWrittenOnUiThreadOnly ==
    [][(\/ position' # position
        \/ play_state' # play_state
        \/ current' # current
        \/ trk_length' # trk_length
        \/ player_min_lufs' # player_min_lufs)
       => last'.thread = "ui"]_vars

C24_InsertNextToAnchor ==
    [][(Ran("add_track") /\ ~tl_freed) =>
          LET t == last'.trk
              p == reqs[t].path
              k == IndexOf(list', t)
          IN IF p # NULL /\ p <= Len(list)
             THEN /\ k # 0
                  /\ RemoveAt(list', k) = list
                  /\ IF reqs[t].pos \in {"BEFORE", "INTO_OR_BEFORE"}
                     THEN k + 1 <= Len(list') /\ list'[k + 1] = list[p]
                     ELSE k - 1 >= 1 /\ list'[k - 1] = list[p]
             ELSE list' = Append(list, t)]_vars

\* C24 witness: a track has been added in front of a row that was there.
C24_AddedInFront ==
    /\ last.op = "add_track"
    /\ ~tl_freed
    /\ IndexOf(list, last.trk) # 0
    /\ IndexOf(list, last.trk) < Len(list)

\* C25: player_mark sets the marker to the position the player held when it
\* was called (the one the last "time-pos" change wrote), asks mpv for
\* nothing, and changes no other field of the player.
C25_MarkTakesHeldPosition ==
    [][Ran("mark") =>
          /\ marker' = position
          /\ UNCHANGED <<position, loop_start, loop_stop, rtn, play_state,
                         current>>]_vars

\* C26: every event mpv has queued is in the end taken and applied by
\* player_event_handler, a run of the handler applies the events in the
\* order mpv queued them (the last "time-pos" and the last "core-idle" of the
\* queue are what the player holds afterwards), and update_ui runs after a
\* run of the handler.
C26_EventsReachPlayerThenUi ==
    /\ (mpv_events # <<>>) ~> (mpv_events = <<>> /\ ~crashed)
    /\ (last.op = "event_handler") ~> (last.op = "update_ui")
    /\ [][HandlerRan =>
            LET idleflag == LastData(mpv_events, "core-idle", -1)
            IN /\ position' = LastData(mpv_events, "time-pos", position)
               /\ play_state' = IF idleflag = -1 THEN play_state
                                 ELSE IF idleflag # 0 THEN "PAUSE" ELSE "PLAY"
               /\ mpv_events' = <<>>]_vars

\* C26 without the runs that end on the fault of C18
C26_UnlessFault ==
    /\ (mpv_events # <<>>) ~> (mpv_events = <<>> \/ crashed)
    /\ (last.op = "event_handler") ~> (last.op = "update_ui" \/ crashed)
    /\ [][(HandlerRan /\ ~crashed') =>
            LET idleflag == LastData(mpv_events, "core-idle", -1)
            IN /\ position' = LastData(mpv_events, "time-pos", position)
               /\ play_state' = IF idleflag = -1 THEN play_state
                                 ELSE IF idleflag # 0 THEN "PAUSE" ELSE "PLAY"
               /\ mpv_events' = <<>>]_vars

\* the load_async calls that have freed the GtkTreePath object o
PathFrees(o) ==
    Cardinality({i \in 1..Len(reqs) : reqs[i].obj = o /\ reqs[i].pc = "done"})

\* C27: a request that load_async has finished has had its file unreferenced
\* once and its path freed once, whether or not a Track was made of it and
\* whether or not other files of the same drop were handed the same path; no
\* file is unreferenced twice, no path is freed twice or read after it was
\* freed, and the process has not faulted.
C27_EachReleasedOnce ==
    /\ ~crashed
    /\ \A i \in 1..Len(reqs) :
         /\ reqs[i].unrefs <= 1
         /\ reqs[i].pc = "done" => reqs[i].unrefs = 1
         /\ reqs[i].obj # NULL => PathFrees(reqs[i].obj) <= 1
         /\ ~(reqs[i].pc # "done" /\ Dangling(i))

\* two audio files of one drop onto a row have both been loaded: their
\* common path has been freed twice
C27_SharedPathFreedTwice ==
    /\ Len(reqs) = 2
    /\ reqs[1].obj # NULL
    /\ reqs[2].obj = reqs[1].obj
    /\ reqs[1].track # NULL /\ reqs[2].track # NULL
    /\ PathFrees(reqs[1].obj) = 2

\* the phase of the loop the player holds: 0 with no marker, 1 with A only,
\* 2 with A and B
LoopPhase ==
    IF loop_start # 0 /\ loop_stop # 0 THEN 2
    ELSE IF loop_start # 0 THEN 1
    ELSE 0

\* C28: after any number of player_loop calls, made at any positions, the
\* phase of the loop the player holds is the phase of mpv's loop: the number
\* of "ab-loop" commands sent, modulo 3.
C28_LoopPhaseFollowsMpv == LoopPhase = ab_loops

\* C29: in every state reached by player_loop calls and handled events,
\* loop_stop is set only if loop_start is set: B is never marked without A.
C29_StopImpliesStart == loop_stop # 0 => loop_start # 0

\* C29 witness: B was marked, and events have been handled since.
C29_BMarkedThenEvents ==
    /\ loop_stop # 0
    /\ loop_start # 0
    /\ last.op = "event_handler"

\* C30: a run of player_event_handler changes the length of a track only
\* through a "length" change that comes from that track's file: a change
\* that mpv queued for the track loaded before does not reach the track
\* loaded since.  (Stated for the runs whose "length" changes all come from
\* the file of a track.)
C30_LengthGoesToItsOwnTrack ==
    [][(/\ HandlerRan
        /\ \A k \in 1..Len(mpv_events) :
              HasData(mpv_events[k], "length") => mpv_events[k].track # NULL)
       => \A t \in TrackIds :
             trk_length'[t] # trk_length[t]
                => \E k \in 1..Len(mpv_events) :
                      /\ HasData(mpv_events[k], "length")
                      /\ mpv_events[k].track = t]_vars

\* C31: play_state leaves STOP only in a run of player_event_handler that
\* handles a "core-idle" change with data, every such run leaves it at PLAY
\* or PAUSE, and once it is PLAY or PAUSE no call of player_toggle,
\* player_seek, player_goto, player_loop, player_mark or
\* player_load_track and no handled event makes it STOP again.
C31_StopOnlyBeforeFirstIdleEvent ==
    [][/\ (play_state = "STOP" /\ play_state' # "STOP")
            => /\ HandlerRan
               /\ LastData(Handled(mpv_events), "core-idle", -1) # -1
       /\ (HandlerRan /\ LastData(Handled(mpv_events), "core-idle", -1) # -1)
            => play_state' \in {"PLAY", "PAUSE"}
       /\ (play_state # "STOP" /\ last'.op # "stop")
            => play_state' \in {"PLAY", "PAUSE"}]_vars

\* C31 witness: the player was paused by a "core-idle" change and player_loop
\* has been called since.
C31_PausedAndLooping ==
    /\ play_state = "PAUSE"
    /\ last.op = "loop"
    /\ loop_start # 0

\* the lowest of 0.0 and the loudness of the tracks of the rows
FloorOf(rows) ==
    CHOOSE m \in {0} \cup {trk_lufs[t] : t \in Range(rows)} :
       \A v \in {0} \cup {trk_lufs[t] : t \in Range(rows)} : m <= v

\* C32: when every load_async has finished, whatever the order of the pool
\* threads' steps, the list holds one row for every file a Track was made
\* of and no other row, and min_lufs is the lowest of 0.0 and the loudness
\* of those tracks.
C32_NothingLostBetweenThreads ==
    (\A i \in 1..Len(reqs) : reqs[i].pc = "done")
    => /\ \A i \in 1..Len(reqs) :
            Count(list, i) = IF reqs[i].track # NULL THEN 1 ELSE 0
       /\ Len(list) = Cardinality({i \in 1..Len(reqs) : reqs[i].track # NULL})
       /\ min_lufs = FloorOf(list)

\* the write of one thread's MIN() has been undone by another's: both
\* tracks are in the list, min_lufs is above the loudness of one of them
C32_MinUpdateLost ==
    /\ \A i \in 1..Len(reqs) : reqs[i].pc = "done"
    /\ Len(list) = 2
    /\ ~crashed
    /\ \E t \in Range(list) : trk_lufs[t] < min_lufs

\* a row has been lost: two Tracks were made, one row is in the list
C32_RowLost ==
    /\ \A i \in 1..Len(reqs) : reqs[i].pc = "done" /\ reqs[i].track # NULL
    /\ Len(reqs) = 2
    /\ Len(list) = 1
    /\ ~crashed

\* C33: a move puts the dragged row on the side of the destination row
\* where tracklist_add_track puts a new row for the same drop position
\* (before it for BEFORE and INTO_OR_BEFORE, after it for AFTER and
\* INTO_OR_AFTER), and a move dropped on no row makes the dragged row the
\* last one.
C33_MoveSidesWithInsert ==
    [][Ran("move") =>
          IF last'.dst = NULL
          THEN list'[Len(list')] = last'.trk
          ELSE last'.dst # last'.trk
                  => Adjacent(list', last'.trk,
                              [anchor |-> last'.dst, pos |-> last'.pos])]_vars

\* the half of C33 about a drop on no row
C33_DropOnNoRowMovesLast ==
    [][(Ran("move") /\ last'.dst = NULL) => list'[Len(list')] = last'.trk]_vars

====
